---- MODULE Spec2Model ----
(***************************************************************************)
(* RotateWriter (package rotate): a size-bounded log writer that renames   *)
(* the active file to a timestamped backup when a write would overflow it, *)
(* and hands the backup to one background goroutine (afterRotate) that     *)
(* compresses it and sweeps old backups.                                   *)
(*                                                                         *)
(* Callers are goroutines of the set Threads; each calls Write or Close.   *)
(* A call starts with the step that takes r.mu (a goroutine that has       *)
(* called and still waits for r.mu has done nothing yet), and is split     *)
(* where another goroutine can observe or block it: the channel send in    *)
(* rotate, the append, the release of r.mu.                                *)
(* Sizes are byte counts; the active file is modelled by its length, a      *)
(* backup by its name.                                                     *)
(* A timestamp is the clock value it was formatted from, in units of the   *)
(* time format's resolution, so two names built within one unit are equal. *)
(* The clock is non-decreasing and advances when it is read.               *)
(***************************************************************************)
EXTENDS Integers, Sequences, FiniteSets, TLC

\* ---------------------------------------------------------------- bounds
\* r.opt.maxSize in bytes
MaxSize == 2
\* capacity of r.postCh (100 in NewRotateWriter), scaled down
PostChCap == 1
\* number of Write calls in a behaviour
MaxWrites == 4
\* the clock runs over 0..MaxClock
MaxClock == 1
\* number of file operations that fail without a cause the model shows
MaxFails == 1
\* how far before the writer's construction (time 0) the timestamps of the
\* backups an earlier run left on disk reach
MaxAge == 1

Threads == {"t1", "t2"}

\* payload lengths: small, exactly maxSize, and oversize
Payloads == {1, MaxSize, MaxSize + 1}

\* the options the writer is constructed with: both sweeps on, compression
\* on or off
Options == [gzip : BOOLEAN, maxDays : {1}, maxBackups : {1}]

Names == [ts : -MaxAge..MaxClock, gz : BOOLEAN]

\* the options of a writer whose sweeps are looked at on their own: each
\* budget negative, zero or positive
SweepOptions == [gzip : BOOLEAN, maxDays : {-1, 0, 1}, maxBackups : {-1, 0, 1, 2}]

NoRet == [n |-> 0, err |-> "none"]
Ret(n, e) == [n |-> n, err |-> e]

VARIABLES
    \* RotateWriter fields
    opt,         \* r.opt (gzip, maxDays, maxBackups)
    size,        \* r.size
    fp,          \* r.fp: "open", "nil", or "closed" (non-nil, descriptor closed)
    backupName,  \* r.backupName: the timestamp of the precomputed name
    err,         \* r.err: "nil" or the latched maintenance error
    postCh,      \* r.postCh: buffered channel of backup names
    postDone,    \* r.postDone is closed
    mu,          \* r.mu: "free" or the goroutine that holds it
    closeOnce,   \* r.closeOnce: "new", "running", "done"
    done,        \* r.done
    \* the file system and the clock
    active,      \* the file at r.filename: [exists, len]
    backups,     \* the names of the backup files on disk
    clock,
    \* calling goroutines
    pc,          \* "idle", or where the goroutine is in its call
    arg,         \* len(data) of the Write in progress
    ret,         \* what the call in progress is about to return
    pre,         \* r.size when the call took r.mu
    rot,         \* rotations this call completed
    \* the afterRotate goroutine
    mpc,         \* "select", "run", "lock" (waiting for r.mu), "exited"
    mphase,      \* the step of the cycle: "compress", "outdated", "overmax"
    mfile,       \* filename, the name received from r.postCh
    merr,        \* the error the step is about to record
    removed,     \* the files the sweep that ran last has removed
    \* history
    nWrites,     \* Write calls so far
    ioFailed,    \* some file operation has returned an error
    nFails,      \* how many of them failed without a cause the model shows
    reported,    \* bytes reported written since the last successful rotation
    nEnq,        \* sends on r.postCh so far; a send tags its entry with it
    nTaken,      \* receives from r.postCh so far
    nSync, nFpClose, nShutdown,  \* what the Close calls did
    firstRes,    \* what the Close call that ran the function returned
    laterRes     \* what the other Close calls returned

vars == <<opt, size, fp, backupName, err, postCh, postDone, mu, closeOnce, done,
          active, backups, clock, pc, arg, ret, pre, rot,
          mpc, mphase, mfile, merr, removed,
          nWrites, ioFailed, nFails, reported, nEnq, nTaken,
          nSync, nFpClose, nShutdown, firstRes, laterRes>>

writerVars == <<size, fp, backupName, err, postCh, postDone, closeOnce, done>>
fsVars == <<active, backups>>
maintVars == <<mpc, mphase, mfile, merr, removed>>
closeHist == <<nSync, nFpClose, nShutdown, firstRes, laterRes>>
ioVars == <<ioFailed, nFails>>
chanHist == <<nEnq, nTaken>>

\* ---------------------------------------------------------------- helpers
\* the value of a name variable that holds no name
NoName == [ts |-> 0, gz |-> FALSE]

\* the times time.Now() can return: the clock never goes back
Clock == clock..MaxClock

\* nowDate: the formatted time
nowDate(now) == now

\* a name that does not follow the clock
backupFileName_Stale(now) == [ts |-> 0, gz |-> FALSE]

\* backupFileName: prefix + delimiter + nowDate + ext
backupFileName(now) == [ts |-> nowDate(now), gz |-> FALSE]

\* filename + ".gz"
GzName(name) == [ts |-> name.ts, gz |-> TRUE]

Init ==
    /\ opt \in Options
    /\ size = 0
    /\ fp = "open"
    /\ clock = 0
    /\ backupName = [ts |-> 0, gz |-> FALSE]
    /\ err = "nil"
    /\ postCh = << >>
    /\ postDone = FALSE
    /\ mu = "free"
    /\ closeOnce = "new"
    /\ done = FALSE
    /\ active \in {[exists |-> TRUE, len |-> n] : n \in {0, 1}}
    /\ backups = {}
    /\ pc = [t \in Threads |-> "idle"]
    /\ arg = [t \in Threads |-> 0]
    /\ ret = [t \in Threads |-> NoRet]
    /\ pre = [t \in Threads |-> 0]
    /\ rot = [t \in Threads |-> 0]
    /\ mpc = "select"
    /\ mphase = "idle"
    /\ mfile = NoName
    /\ merr = "nil"
    /\ removed = {}
    /\ nWrites = 0
    /\ ioFailed = FALSE
    /\ nFails = 0
    /\ reported = 0
    /\ nEnq = 0
    /\ nTaken = 0
    /\ nSync = 0
    /\ nFpClose = 0
    /\ nShutdown = 0
    /\ firstRes = "none"
    /\ laterRes = {}

\* ---------------------------------------------------------------- Write
\* int64(size) > r.opt.maxSize
Oversize(n) == n > MaxSize

\* the size check with >= for >
NeedRotate_AtLimit(sz, n) == sz + n >= MaxSize

\* (r.size + size) > r.opt.maxSize
NeedRotate(sz, n) == sz + n > MaxSize

\* a lock that excludes nobody
CanLock_Always == TRUE

\* r.mu.Lock() returns only when no goroutine holds the mutex
CanLock == mu = "free"

\* Write returns (n, e) once the deferred r.mu.Unlock() has run
Return(t, n, e) ==
    /\ ret' = [ret EXCEPT ![t] = Ret(n, e)]
    /\ pc' = [pc EXCEPT ![t] = "wUnlock"]

\* a file operation returns an error: for a cause the model shows (a closed
\* handle, a missing file), or for one it does not
IOError(caused) ==
    /\ ioFailed' = TRUE
    /\ IF caused THEN nFails' = nFails
                 ELSE nFails < MaxFails /\ nFails' = nFails + 1

\* a failed call that reports a byte as written
Fail_Partial(t, caused) ==
    /\ Return(t, 1, "io")
    /\ IOError(caused)

\* the call fails on the write path: Write returns (0, err)
Fail(t, caused) ==
    /\ Return(t, 0, "io")
    /\ IOError(caused)

\* rotate, second half: the next backup name, os.Create(r.filename), and
\* back in write, r.size = 0
rotateReopen(t) ==
    /\ \E now \in Clock :
          /\ clock' = now
          /\ backupName' = backupFileName(now)
    /\ \/ /\ fp' = "open"
          /\ active' = [exists |-> TRUE, len |-> 0]
          /\ size' = 0
          /\ reported' = 0
          /\ rot' = [rot EXCEPT ![t] = @ + 1]
          /\ pc' = [pc EXCEPT ![t] = "append"]
          /\ UNCHANGED <<ret, ioVars>>
       \/ /\ fp' = "nil"
          /\ active' = active
          /\ Fail(t, FALSE)
          /\ UNCHANGED <<size, reported, rot>>

\* rotate up to the channel send: r.fp.Close(), os.Stat(r.filename),
\* os.Rename(r.filename, backupName)
rotate(t) ==
    \/ \* r.fp.Close() fails: the descriptor is gone, r.fp stays set
       /\ fp # "nil"
       /\ fp' = "closed"
       /\ Fail(t, fp = "closed")
       /\ UNCHANGED <<active, backups, backupName, size, reported, rot, clock>>
    \/ \* the handle is closed (or was nil), the file is renamed
       /\ fp \in {"open", "nil"}
       /\ active.exists
       /\ fp' = "nil"
       /\ active' = [exists |-> FALSE, len |-> 0]
       /\ backups' = backups \cup {backupName}
       /\ pc' = [pc EXCEPT ![t] = "send"]
       /\ UNCHANGED <<backupName, size, ret, ioVars, reported, rot, clock>>
    \/ \* os.Rename fails
       /\ fp \in {"open", "nil"}
       /\ active.exists
       /\ fp' = "nil"
       /\ Fail(t, FALSE)
       /\ UNCHANGED <<active, backups, backupName, size, reported, rot, clock>>
    \/ \* os.Stat fails: nothing to rename, nothing to send
       /\ fp \in {"open", "nil"}
       /\ ~active.exists
       /\ backups' = backups
       /\ rotateReopen(t)

\* write, first half: the size check, and rotate when it overflows
write(t, n) ==
    IF NeedRotate(size, n)
      THEN rotate(t)
      ELSE /\ pc' = [pc EXCEPT ![t] = "append"]
           /\ UNCHANGED <<fp, active, backups, backupName, size, ret,
                          ioVars, reported, rot, clock>>

\* the checks with the payload's length looked at first
Verdict_SizeFirst(n) ==
    IF Oversize(n) THEN "oversize"
    ELSE IF done THEN "closed"
    ELSE IF err # "nil" THEN "latched"
    ELSE "write"

\* the checks with r.err looked at before the payload's length
Verdict_LatchFirst(n) ==
    IF done THEN "closed"
    ELSE IF err # "nil" THEN "latched"
    ELSE IF Oversize(n) THEN "oversize"
    ELSE "write"

\* the checks without the one for a closed writer
Verdict_NoDone(n) ==
    IF Oversize(n) THEN "oversize"
    ELSE IF err # "nil" THEN "latched"
    ELSE "write"

\* the checks without the one for a latched error
Verdict_NoLatch(n) ==
    IF done THEN "closed"
    ELSE IF Oversize(n) THEN "oversize"
    ELSE "write"

\* the checks of Write, in the order it makes them: r.done.Load(), the
\* payload's length, r.err
Verdict(n) ==
    IF done THEN "closed"
    ELSE IF Oversize(n) THEN "oversize"
    ELSE IF err # "nil" THEN "latched"
    ELSE "write"

\* Write(data) with len(data) = n: r.mu.Lock(), the checks for a closed writer,
\* an oversize payload and a latched error, then r.write(data)
Write(t, n) ==
    /\ pc[t] = "idle"
    /\ nWrites < MaxWrites
    /\ nWrites' = nWrites + 1
    /\ CanLock
    /\ mu' = t
    /\ arg' = [arg EXCEPT ![t] = n]
    /\ pre' = [pre EXCEPT ![t] = size]
    /\ LET v == Verdict(n)
           same == <<fp, active, backups, backupName, size, ioVars, reported,
                     rot, clock>>
       IN CASE v = "closed" ->
                 Return(t, 0, "closed") /\ UNCHANGED <<err, same>>
            [] v = "oversize" ->
                 Return(t, 0, "oversize") /\ UNCHANGED <<err, same>>
            [] v = "latched" ->
                 Return(t, 0, err) /\ err' = "nil" /\ UNCHANGED same
            [] OTHER ->
                 write(t, n) /\ err' = err
    /\ UNCHANGED <<opt, postCh, postDone, closeOnce, done, maintVars,
                   chanHist, closeHist>>

\* r.postCh <- backupName proceeds only while the buffer has room
CanSend == Len(postCh) < PostChCap

\* rotate: r.postCh <- backupName, then the rest of rotate
rotateSend(t) ==
    /\ pc[t] = "send"
    /\ CanSend
    /\ postCh' = Append(postCh, [name |-> backupName, id |-> nEnq + 1])
    /\ nEnq' = nEnq + 1
    /\ rotateReopen(t)
    /\ UNCHANGED <<nWrites, opt, err, postDone, mu, closeOnce, done, backups, arg,
                   pre, maintVars, nTaken, closeHist>>

\* write, second half: if r.fp != nil, r.fp.Write(data) and r.size += size
writeAppend(t) ==
    /\ pc[t] = "append"
    /\ \/ /\ fp = "nil"
          /\ Return(t, arg[t], "nil")
          /\ reported' = reported + arg[t]
          /\ UNCHANGED <<active, size, ioVars>>
       \/ /\ fp = "open"
          /\ active' = [active EXCEPT !.len = @ + arg[t]]
          /\ size' = size + arg[t]
          /\ Return(t, arg[t], "nil")
          /\ reported' = reported + arg[t]
          /\ UNCHANGED ioVars
       \/ /\ fp # "nil"
          /\ Fail(t, fp = "closed")
          /\ UNCHANGED <<active, size, reported>>
    /\ UNCHANGED <<nWrites, opt, fp, backupName, err, postCh, postDone, mu, closeOnce, done,
                   backups, clock, arg, pre, rot, maintVars,
                   chanHist, closeHist>>

\* Write returns: the deferred r.mu.Unlock()
WriteReturn(t) ==
    /\ pc[t] = "wUnlock"
    /\ mu' = "free"
    /\ pc' = [pc EXCEPT ![t] = "idle"]
    /\ ret' = [ret EXCEPT ![t] = NoRet]
    /\ arg' = [arg EXCEPT ![t] = 0]
    /\ pre' = [pre EXCEPT ![t] = 0]
    /\ rot' = [rot EXCEPT ![t] = 0]
    /\ UNCHANGED <<nWrites, opt, writerVars, fsVars, clock, maintVars,
                   ioVars, reported, chanHist, closeHist>>

\* ---------------------------------------------------------------- Close
\* r.closeOnce.Do(f) runs f in the first call only
OnceFresh == closeOnce = "new"

\* Close(), first call: closeOnce.Do runs the function, which takes r.mu, does
\* r.done.Store(true), close(r.postDone), r.fp.Sync() and, when that
\* succeeds, r.fp.Close()
Close(t) ==
    /\ pc[t] = "idle"
    /\ OnceFresh
    /\ closeOnce' = "running"
    /\ CanLock
    /\ mu' = t
    /\ done' = TRUE
    /\ postDone' = TRUE
    /\ nShutdown' = nShutdown + 1
    /\ nSync' = nSync + 1
    /\ pc' = [pc EXCEPT ![t] = "cUnlock"]
    /\ \/ \* Sync and Close succeed
          /\ fp = "open"
          /\ fp' = "closed"
          /\ nFpClose' = nFpClose + 1
          /\ ret' = [ret EXCEPT ![t] = Ret(0, "nil")]
          /\ UNCHANGED ioVars
       \/ \* Sync succeeds, Close fails
          /\ fp = "open"
          /\ fp' = "closed"
          /\ nFpClose' = nFpClose + 1
          /\ ret' = [ret EXCEPT ![t] = Ret(0, "io")]
          /\ IOError(FALSE)
       \/ \* Sync fails (always on a nil or closed handle): Close is not called
          /\ fp' = fp
          /\ nFpClose' = nFpClose
          /\ ret' = [ret EXCEPT ![t] = Ret(0, "io")]
          /\ IOError(fp # "open")
    /\ UNCHANGED <<nWrites, opt, size, backupName, err, postCh, fsVars, clock,
                   arg, pre, rot, maintVars, reported,
                   chanHist, firstRes, laterRes>>

\* the function returns (the deferred r.mu.Unlock()), the Once is marked done
\* and Close returns err
CloseReturn(t) ==
    /\ pc[t] = "cUnlock"
    /\ mu' = "free"
    /\ closeOnce' = "done"
    /\ firstRes' = ret[t].err
    /\ pc' = [pc EXCEPT ![t] = "idle"]
    /\ ret' = [ret EXCEPT ![t] = NoRet]
    /\ UNCHANGED <<nWrites, opt, size, fp, backupName, err, postCh, postDone, done,
                   fsVars, clock, arg, pre, rot, maintVars,
                   ioVars, reported, chanHist, nSync, nFpClose, nShutdown,
                   laterRes>>

\* Close(), a later call: closeOnce.Do returns without running the function
\* (after waiting for a first call still in it), and the named result err of
\* this call is nil
CloseAgain(t) ==
    /\ pc[t] = "idle"
    /\ closeOnce = "done"
    /\ laterRes' = laterRes \cup {"nil"}
    /\ UNCHANGED <<nWrites, opt, writerVars, mu, fsVars, clock, pc, arg, ret, pre, rot,
                   maintVars, ioVars, reported, chanHist,
                   nSync, nFpClose, nShutdown, firstRes>>

\* ---------------------------------------------------------------- afterRotate
RECURSIVE SortStrings_Desc(_)
\* a sort in descending order
SortStrings_Desc(S) ==
    IF S = {} THEN << >>
    ELSE LET m == CHOOSE x \in S : \A y \in S : x.ts >= y.ts
         IN <<m>> \o SortStrings_Desc(S \ {m})

RECURSIVE SortStrings(_)
\* sort.Strings on names of one shape: ascending by timestamp
SortStrings(S) ==
    IF S = {} THEN << >>
    ELSE LET m == CHOOSE x \in S : \A y \in S : x.ts <= y.ts
         IN <<m>> \o SortStrings(S \ {m})

\* listFiles: the backups on disk that match the pattern, which ends in ".gz"
\* exactly when compression is on; filepath.Glob returns them sorted
listFiles == SortStrings({f \in backups : f.gz = opt.gzip})

RECURSIVE RemoveAll(_, _)
\* os.Remove of each file of a sequence
RemoveAll(disk, files) ==
    IF files = << >> THEN disk
    ELSE RemoveAll(disk \ {Head(files)}, Tail(files))

\* a maintenance step returns: the next step of the cycle, or back to select
\* (where filename goes out of scope)
Proceed ==
    /\ mpc' = (IF mphase = "overmax" THEN "select" ELSE "run")
    /\ mphase' = (CASE mphase = "compress" -> "outdated"
                    [] mphase = "outdated" -> "overmax"
                    [] OTHER -> "idle")
    /\ mfile' = (IF mphase = "overmax" THEN NoName ELSE mfile)

\* a maintenance step got an error: it goes for r.mu to record it
Record(e, caused) ==
    /\ mpc' = "lock"
    /\ merr' = e
    /\ UNCHANGED <<mphase, mfile>>
    /\ IOError(caused)

\* a receive that leaves the entry in the channel
Recv_Peek(q) == q

\* the channel after a receive: its oldest entry is gone
Recv(q) == Tail(q)

\* afterRotate: case filename := <-r.postCh
afterRotateRecv ==
    /\ mpc = "select"
    /\ postCh # << >>
    /\ mfile' = Head(postCh).name
    /\ postCh' = Recv(postCh)
    /\ nTaken' = nTaken + 1
    /\ mpc' = "run"
    /\ mphase' = "compress"
    /\ UNCHANGED <<nWrites, opt, size, fp, backupName, err, postDone, mu, closeOnce, done,
                   fsVars, clock, pc, arg, ret, pre, rot, merr, removed,
                   ioVars, reported, nEnq, closeHist>>

\* afterRotate: case <-r.postDone
afterRotateDone ==
    /\ mpc = "select"
    /\ postDone
    /\ mpc' = "exited"
    /\ UNCHANGED <<nWrites, opt, writerVars, mu, fsVars, clock, pc, arg, ret, pre, rot,
                   mphase, mfile, merr, removed, ioVars, reported,
                   chanHist, closeHist>>

\* compressFile(filename): gzipFile writes filename.gz and removes filename
compressFile ==
    /\ mpc = "run"
    /\ mphase = "compress"
    /\ IF ~opt.gzip
         THEN Proceed /\ UNCHANGED <<backups, merr, ioVars>>
         ELSE \/ /\ mfile \in backups
                 /\ backups' = (backups \ {mfile}) \cup {GzName(mfile)}
                 /\ Proceed
                 /\ UNCHANGED <<merr, ioVars>>
              \/ \* os.Open or os.Create fails (os.Open always does when the
                 \* file is gone)
                 /\ backups' = backups
                 /\ Record("gzip", mfile \notin backups)
              \/ \* the copy or the final os.Remove fails: both files are left
                 /\ mfile \in backups
                 /\ backups' = backups \cup {GzName(mfile)}
                 /\ Record("gzip", FALSE)
    /\ UNCHANGED <<nWrites, opt, writerVars, mu, active, clock, pc, arg, ret, pre, rot,
                   removed, reported, chanHist, closeHist>>

\* dateline: the formatted time maxDays days before now
dateline(now) == now - opt.maxDays

\* a comparison that takes the boundary itself for outdated
NotOutdated_Strict(file, boundary) == file.ts > boundary

\* file >= boundaryFile, both of one shape
NotOutdated(file, boundary) == file.ts >= boundary

\* a sweep removes files in order; os.Remove may fail at any of them, which
\* ends the sweep with the error
Sweep(files) ==
    \/ /\ backups' = RemoveAll(backups, files)
       /\ removed' = backups \ backups'
       /\ Proceed
       /\ UNCHANGED <<merr, ioVars>>
    \/ \E k \in 1..Len(files) :
          /\ backups' = RemoveAll(backups, SubSeq(files, 1, k - 1))
          /\ removed' = backups \ backups'
          /\ Record("remove", FALSE)

\* a sweep returns without a call of os.Remove
SweepNothing ==
    /\ Proceed
    /\ removed' = {}
    /\ UNCHANGED <<backups, merr, ioVars>>

\* a budget that switches its sweep off only when negative
Disabled_Negative(budget) == budget < 0

\* r.opt.maxDays <= 0, r.opt.maxBackups <= 0: the sweep returns at once
Disabled(budget) == budget <= 0

\* removeOutdatedFiles
removeOutdatedFiles ==
    /\ mpc = "run"
    /\ mphase = "outdated"
    /\ IF Disabled(opt.maxDays)
         THEN SweepNothing /\ UNCHANGED clock
         ELSE \E now \in Clock :
                 /\ clock' = now
                 /\ Sweep(SelectSeq(listFiles,
                                    LAMBDA f : ~NotOutdated(f, dateline(now))))
    /\ UNCHANGED <<nWrites, opt, writerVars, mu, active, pc, arg, ret, pre, rot,
                   reported, chanHist, closeHist>>

\* removeOverMaxFiles
removeOverMaxFiles ==
    /\ mpc = "run"
    /\ mphase = "overmax"
    /\ LET oldFiles == listFiles
           remain == Len(oldFiles)
       IN IF Disabled(opt.maxBackups)
            THEN SweepNothing
          ELSE IF opt.maxBackups <= 0 \/ opt.maxBackups >= remain
            THEN SweepNothing
          ELSE Sweep(SubSeq(oldFiles, 1, remain - opt.maxBackups))
    /\ UNCHANGED <<nWrites, opt, writerVars, mu, active, clock, pc, arg, ret, pre, rot,
                   reported, chanHist, closeHist>>

\* r.err set without r.mu
LatchLock_None == TRUE

\* deleteOverMaxFiles, the count sweep of rotatewriter.go: its second test
\* joins the two conditions with &&, so it never returns early, and
\* oldFiles[:remain-maxBackups] with a negative bound is a run-time panic,
\* which ends the process
deleteOverMaxFiles ==
    /\ mpc = "run"
    /\ mphase = "overmax"
    /\ LET oldFiles == listFiles
           remain == Len(oldFiles)
       IN IF Disabled(opt.maxBackups)
            THEN SweepNothing
          ELSE IF opt.maxBackups <= 0 /\ opt.maxBackups >= remain
            THEN SweepNothing
          ELSE IF remain - opt.maxBackups < 0
            THEN /\ mpc' = "panic"
                 /\ UNCHANGED <<mphase, mfile, backups, merr, removed, ioVars>>
          ELSE Sweep(SubSeq(oldFiles, 1, remain - opt.maxBackups))
    /\ UNCHANGED <<nWrites, opt, writerVars, mu, active, clock, pc, arg, ret, pre, rot,
                   reported, chanHist, closeHist>>

\* the goroutine that records an error holds r.mu while it does
LatchLock == CanLock

\* r.mu.Lock(), r.err = err, and the deferred r.mu.Unlock() as the step returns
latch ==
    /\ mpc = "lock"
    /\ LatchLock
    /\ err' = merr
    /\ merr' = "nil"
    /\ Proceed
    /\ UNCHANGED <<nWrites, opt, size, fp, backupName, postCh, postDone, mu, closeOnce,
                   done, fsVars, clock, pc, arg, ret, pre, rot, removed,
                   ioVars, reported, chanHist, closeHist>>

\* ---------------------------------------------------------------- system
Next ==
    \/ \E t \in Threads, n \in Payloads : Write(t, n)
    \/ \E t \in Threads : rotateSend(t)
    \/ \E t \in Threads : writeAppend(t)
    \/ \E t \in Threads : WriteReturn(t)
    \/ \E t \in Threads : Close(t)
    \/ \E t \in Threads : CloseReturn(t)
    \/ \E t \in Threads : CloseAgain(t)
    \/ afterRotateRecv
    \/ afterRotateDone
    \/ compressFile
    \/ removeOutdatedFiles
    \/ removeOverMaxFiles
    \/ latch

Spec == Init /\ [][Next]_vars

\* the steps of the afterRotate goroutine
MaintNext ==
    \/ afterRotateRecv
    \/ afterRotateDone
    \/ compressFile
    \/ removeOutdatedFiles
    \/ removeOverMaxFiles
    \/ latch

\* the steps of a call of goroutine t once it holds r.mu
CallNext(t) == rotateSend(t) \/ writeAppend(t) \/ WriteReturn(t) \/ CloseReturn(t)

\* the scheduler: a goroutine that can go on does (callers are free to stop
\* calling)
FairSpec ==
    /\ Spec
    /\ WF_vars(MaintNext)
    /\ \A t \in Threads : WF_vars(CallNext(t))

\* the same with a Close call pending until it has got r.mu
CloseSpec == FairSpec /\ WF_vars(\E t \in Threads : Close(t))

\* ---------------------------------------------------------------- sweeps
\* A writer, of either implementation, whose afterRotate has received its
\* first name and is about to run the two sweeps, on a disk that holds any
\* backups (of earlier runs as well), with any budgets.
SweepInit ==
    /\ opt \in SweepOptions
    /\ backups \in SUBSET Names
    /\ clock = 0
    /\ mpc = "run"
    /\ mphase = "outdated"
    /\ mfile = NoName
    /\ merr = "nil"
    /\ removed = {}
    /\ nEnq = 1
    /\ nTaken = 1
    /\ size = 0
    /\ fp = "open"
    /\ backupName = [ts |-> 0, gz |-> FALSE]
    /\ err = "nil"
    /\ postCh = << >>
    /\ postDone = FALSE
    /\ mu = "free"
    /\ closeOnce = "new"
    /\ done = FALSE
    /\ active = [exists |-> TRUE, len |-> 0]
    /\ pc = [t \in Threads |-> "idle"]
    /\ arg = [t \in Threads |-> 0]
    /\ ret = [t \in Threads |-> NoRet]
    /\ pre = [t \in Threads |-> 0]
    /\ rot = [t \in Threads |-> 0]
    /\ nWrites = 1
    /\ ioFailed = FALSE
    /\ nFails = 0
    /\ reported = 0
    /\ nSync = 0
    /\ nFpClose = 0
    /\ nShutdown = 0
    /\ firstRes = "none"
    /\ laterRes = {}

SweepNext ==
    \/ removeOutdatedFiles
    \/ removeOverMaxFiles
    \/ deleteOverMaxFiles
    \/ latch

SweepSpec == SweepInit /\ [][SweepNext]_vars

\* the values the variables range over
TypeOK ==
    /\ opt \in Options
    /\ size \in 0..MaxSize
    /\ fp \in {"open", "nil", "closed"}
    /\ backupName \in Names /\ mfile \in Names /\ backups \subseteq Names
    /\ err \in {"nil", "gzip", "remove"} /\ merr \in {"nil", "gzip", "remove"}
    /\ removed \subseteq Names
    /\ Len(postCh) <= PostChCap
    /\ \A i \in 1..Len(postCh) : postCh[i].name \in Names
    /\ mu \in Threads \cup {"free"}
    /\ closeOnce \in {"new", "running", "done"}
    /\ clock \in 0..MaxClock
    /\ pc \in [Threads -> {"idle", "send", "append", "wUnlock", "cUnlock"}]
    /\ mpc \in {"select", "run", "lock", "exited"}
    /\ mphase \in {"idle", "compress", "outdated", "overmax"}
    /\ nWrites \in 0..MaxWrites /\ nFails \in 0..MaxFails

\* ---------------------------------------------------------------- properties
\* a Write of thread t holds r.mu
InWrite(t) == pc[t] \in {"send", "append", "wUnlock"}

\* C1: as long as no file operation has failed, a Write that returns without
\* error has rotated exactly once if r.size + len(p) exceeded maxSize at its
\* start and not at all otherwise; the rotation is done before the payload is
\* appended (the new file is empty, the counter 0), and when the Write returns
\* after a rotation the counter and the new file hold len(p) bytes.
C1_RotateExactlyOnOverflow ==
    \A t \in Threads :
        LET overflow == pre[t] + arg[t] > MaxSize
        IN /\ (pc[t] = "append" /\ ~ioFailed) =>
                /\ rot[t] = (IF overflow THEN 1 ELSE 0)
                /\ overflow => (size = 0 /\ active.len = 0)
                /\ ~overflow => size = pre[t]
           /\ (pc[t] = "wUnlock" /\ ret[t].err = "nil" /\ ~ioFailed) =>
                /\ rot[t] = (IF overflow THEN 1 ELSE 0)
                /\ ret[t].n = arg[t]
                /\ overflow => (size = arg[t] /\ active.len = arg[t])
                /\ ~overflow => size = pre[t] + arg[t]

\* a Write that overflowed a non-empty counter returns after its rotation
C1_Witness ==
    \E t \in Threads :
        /\ pc[t] = "wUnlock" /\ ret[t].err = "nil" /\ ~ioFailed
        /\ pre[t] > 0 /\ pre[t] + arg[t] > MaxSize
        /\ rot[t] = 1 /\ size = arg[t]

\* C2: in every reachable state r.size equals the bytes the successful Write
\* calls have reported as written since the last successful rotation (since
\* construction if there was none).
C2_SizeIsReportedBytes == size = reported

\* C3: a Write of more than maxSize bytes on a writer that is not closed
\* returns (0, oversize) and leaves the active file, the counter, the handle,
\* the precomputed backup name, the queue, the backups and the latched error
\* as they were; it does not rotate.
C3_OversizeChangesNothing ==
    [][\A t \in Threads :
          (pc[t] = "idle" /\ InWrite(t)' /\ arg'[t] > MaxSize /\ ~done) =>
              /\ pc'[t] = "wUnlock"
              /\ ret'[t] = Ret(0, "oversize")
              /\ rot'[t] = 0
              /\ UNCHANGED <<active, size, fp, backupName, postCh, err,
                             backups, nEnq>>]_vars

\* an oversize Write is about to return while an error is latched
C3_Witness ==
    \E t \in Threads :
        /\ pc[t] = "wUnlock" /\ arg[t] > MaxSize /\ ~done
        /\ ret[t] = Ret(0, "oversize")
        /\ err # "nil" /\ size > 0

\* C4: once r.done is set it stays set, and every Write after that, whatever
\* its payload and whatever r.err holds, returns (0, closed) and leaves the
\* active file, the counter, the handle, the backup name, the queue and the
\* latched error as they were.
C4_ClosedWriteChangesNothing ==
    [][/\ done => done'
       /\ \A t \in Threads :
             (pc[t] = "idle" /\ InWrite(t)' /\ done) =>
                 /\ pc'[t] = "wUnlock"
                 /\ ret'[t] = Ret(0, "closed")
                 /\ rot'[t] = 0
                 /\ UNCHANGED <<active, size, fp, backupName, postCh, err,
                                backups, nEnq>>]_vars

\* after Close, an oversize Write is about to return while an error is latched
C4_Witness ==
    \E t \in Threads :
        /\ done /\ firstRes # "none"
        /\ pc[t] = "wUnlock" /\ ret[t] = Ret(0, "closed")
        /\ arg[t] > MaxSize /\ err # "nil"

\* C5: however many Close calls are made, the shutdown signal is raised and the
\* handle is synced and closed exactly once, and every Close call returns what
\* the first one returned, error or not.
C5_CloseIdempotent ==
    /\ nShutdown <= 1 /\ nSync <= 1 /\ nFpClose <= 1
    /\ firstRes # "none" => (nShutdown = 1 /\ nSync = 1 /\ nFpClose = 1)
    /\ \A r \in laterRes : r = firstRes

\* C6: the size check, the rotation and the append of one Write exclude every
\* other Write: at most one goroutine is between taking and releasing r.mu, it
\* is the holder of r.mu, r.size is the value it read until it changes it
\* itself, and r.size never exceeds maxSize.
C6_WritesAreSerialized ==
    /\ Cardinality({t \in Threads : InWrite(t)}) <= 1
    /\ \A t \in Threads : InWrite(t) => mu = t
    /\ \A t \in Threads :
          (pc[t] = "send" \/ (pc[t] = "append" /\ rot[t] = 0)) => size = pre[t]
    /\ size <= MaxSize

\* a Write is between its size check and its append, and another goroutine
\* that wants to write cannot start
C6_Witness ==
    \E t, u \in Threads :
        /\ t # u
        /\ pc[t] = "append" /\ pre[t] > 0 /\ rot[t] = 0
        /\ pc[u] = "idle" /\ nWrites < MaxWrites
        /\ ~ENABLED Write(u, 1)

\* C7: a Write is never stuck at the send on r.postCh: whenever it waits there,
\* holding r.mu, for room in the queue, the afterRotate goroutine is able to
\* go on and take an entry (it is not itself waiting for r.mu, nor gone).
C7_SendNeverStuck ==
    \A t \in Threads :
        (pc[t] = "send" /\ ~CanSend) => mpc \in {"select", "run"}

\* Close is in its function: nobody is in a Write, r.done is set
CloseAlone ==
    \A u \in Threads :
        pc[u] = "cUnlock" =>
            /\ mu = u
            /\ done
            /\ \A t \in Threads : ~InWrite(t)

\* a Write that holds r.mu on a closed writer does nothing but return the
\* closed error
ClosedWriteStops ==
    \A t \in Threads :
        /\ pc[t] \in {"send", "append"} => ~done
        /\ (pc[t] = "wUnlock" /\ done) => ret[t] = Ret(0, "closed")

\* on a closed writer the active file does not grow and r.size stays
NoAppendAfterClose == done => (active'.len <= active.len /\ size' = size)

\* C8: Close and Write exclude each other: while the function of Close runs no
\* Write is between taking and releasing r.mu (and the other way round); a
\* Write that takes r.mu once Close has set r.done returns the closed error
\* without going on to rotate or append; and no step after Close has run adds
\* bytes to the active file or to r.size.
C8_CloseExcludesWrites ==
    [](CloseAlone /\ ClosedWriteStops) /\ [][NoAppendAfterClose]_vars

\* Close is in its function, the handle closed, after bytes were written, and
\* a goroutine that wants to write cannot start
C8_Witness ==
    \E t, u \in Threads :
        /\ pc[u] = "cUnlock" /\ fp = "closed" /\ size > 0
        /\ pc[t] = "idle" /\ nWrites < MaxWrites
        /\ ~ENABLED Write(t, 1)

\* the errors afterRotate records
MaintErrors == {"gzip", "remove"}

\* a Write on an open writer, not oversize, finds r.err set: it returns that
\* error and empties r.err
SurfaceStep(t) ==
    (pc[t] = "idle" /\ InWrite(t)' /\ ~done /\ arg'[t] <= MaxSize /\ err # "nil")
        => (pc'[t] = "wUnlock" /\ ret'[t] = Ret(0, err) /\ err' = "nil")

\* a call gets a maintenance error as its result only by taking it from r.err
OnlyFromLatch(t) ==
    (ret'[t] # ret[t] /\ ret'[t].err \in MaintErrors)
        => (pc[t] = "idle" /\ err = ret'[t].err /\ err' = "nil")

\* r.err changes only in a step that has r.mu to itself: a Write that empties
\* it, or afterRotate storing the error its step got
LatchUnderLock ==
    err' # err =>
        /\ mu = "free"
        /\ \/ /\ err' = "nil"
              /\ \E t \in Threads : pc[t] = "idle" /\ pc'[t] = "wUnlock"
           \/ /\ mpc = "lock"
              /\ merr \in MaintErrors
              /\ err' = merr
              /\ mu' = "free"

\* C9: a Write that takes r.mu on an open writer with a payload that is not
\* oversize while r.err holds an error (the last one afterRotate recorded)
\* returns (0, that error) and leaves r.err empty; a Write returns a
\* maintenance error only by taking it out of r.err, so not again until
\* afterRotate records another; r.err is set only by afterRotate, to the error
\* its step got, and changes only in a step that has r.mu to itself.
C9_LatchedErrorSurfacesOnce ==
    [][/\ \A t \in Threads : SurfaceStep(t) /\ OnlyFromLatch(t)
       /\ LatchUnderLock]_vars

\* a Write is about to return the error afterRotate recorded, r.err is empty
\* again, and the file and r.size are as the Writes before left them
C9_Witness ==
    \E t \in Threads :
        /\ pc[t] = "wUnlock" /\ ret[t].n = 0 /\ ret[t].err \in MaintErrors
        /\ arg[t] <= MaxSize /\ ~done
        /\ err = "nil" /\ size > 0 /\ size = pre[t]

\* r.postCh holds the sends not yet received, oldest first
QueueInOrder ==
    /\ nEnq = nTaken + Len(postCh)
    /\ \A i \in 1..Len(postCh) : postCh[i].id = nTaken + i

\* afterRotate is in a cycle exactly between a receive and its count sweep
CycleShape == (mphase = "idle") = (mpc \in {"select", "exited"})

\* a receive: at the select, no cycle under way, the oldest entry
ReceiveStep ==
    nTaken' # nTaken =>
        /\ mpc = "select" /\ mphase = "idle"
        /\ nTaken' = nTaken + 1
        /\ postCh # << >>
        /\ Head(postCh).id = nTaken'
        /\ mfile' = Head(postCh).name
        /\ mpc' = "run" /\ mphase' = "compress"

\* the steps of a cycle come in order, on the name received
CycleStep ==
    /\ mphase' # mphase =>
          <<mphase, mphase'>> \in {<<"idle", "compress">>,
                                  <<"compress", "outdated">>,
                                  <<"outdated", "overmax">>,
                                  <<"overmax", "idle">>}
    /\ (mphase # "idle" /\ mphase' # "idle") => mfile' = mfile

RotationNames == {name \in Names : name.ts >= 0 /\ ~name.gz}

\* name is an uncompressed backup on disk
Retired(name) == ~name.gz /\ name \in backups

\* name has been compressed: name.gz is on disk and name is not
Compressed(name) == name \notin backups /\ GzName(name) \in backups

\* C11: with compression on, every backup a rotation has retired is, sooner or
\* later, on disk as backupName.gz with backupName gone, unless a file
\* operation fails; Close calls included.
C11_RetiredIsCompressed ==
    \A name \in RotationNames :
        (opt.gzip /\ Retired(name)) ~> (ioFailed \/ Compressed(name))

\* gzipFile has failed and compressFile is on its way to record the error
CompressFailed == mphase = "compress" /\ merr = "gzip"

\* C12: when the compression of a backup fails, afterRotate records the error
\* in r.err and goes on, in the same cycle, to the age sweep and from there to
\* the count sweep, whatever the callers do meanwhile.
C12_SweepsAfterCompressFailure ==
    CompressFailed ~> (mphase = "overmax" /\ mpc = "run" /\ merr = "nil")

\* C19: once Close is called, the afterRotate goroutine returns, whatever it
\* was doing and whatever r.postCh held at that moment.
C19_MaintainerTerminates == <>(mpc = "exited")

\* C18: once Close has closed r.postDone, afterRotate receives nothing more
\* from r.postCh: what is queued then stays queued, and only the cycle under
\* way may finish.
C18_NoReceiveAfterShutdown ==
    [][postDone => (nTaken' = nTaken /\ (postCh # << >> => postCh' = postCh))]_vars

\* rotate renames: the file leaves the active path for the precomputed name,
\* nothing is sent yet
RenameStep(t) ==
    (pc[t] = "idle" /\ pc'[t] = "send") =>
        /\ active.exists
        /\ backups' = backups \cup {backupName}
        /\ active' = [exists |-> FALSE, len |-> 0]
        /\ fp' = "nil"
        /\ UNCHANGED <<backupName, postCh, nEnq, rot>>

\* rotate goes on to its successful end: the name the file was renamed to is
\* sent, once; the next name is built from the clock as read now; the active
\* path holds a new, empty file with an open handle
FinishStep(t) ==
    (pc[t] = "send" /\ pc'[t] = "append") =>
        /\ postCh' = Append(postCh, [name |-> backupName, id |-> nEnq + 1])
        /\ nEnq' = nEnq + 1
        /\ backupName' = [ts |-> clock', gz |-> FALSE]
        /\ clock' >= clock
        /\ active' = [exists |-> TRUE, len |-> 0]
        /\ fp' = "open"
        /\ rot'[t] = rot[t] + 1

\* r.postCh grows only by the send of a rotation, one entry at a time
OnlyRotationSends ==
    nEnq' # nEnq =>
        /\ nEnq' = nEnq + 1
        /\ \E t \in Threads : pc[t] = "send" /\ pc'[t] # "send"

\* C16: a rotation on a writer whose active path exists moves the file to the
\* backup name computed before it (the active path is empty of it, the name
\* is on disk), sends exactly that name once on r.postCh, computes the next
\* backup name from the clock, and leaves a new empty file with an open handle
\* at the active path.
C16_RotateEffects ==
    [][/\ \A t \in Threads : RenameStep(t) /\ FinishStep(t)
       /\ OnlyRotationSends
      ]_vars

\* a rotation has just ended well: its backup is on disk under the name that
\* is queued, and the writer holds a later name for the next one
C16_Witness ==
    \E t \in Threads :
        /\ pc[t] = "append" /\ rot[t] = 1 /\ pre[t] > 0
        /\ fp = "open" /\ active = [exists |-> TRUE, len |-> 0]
        /\ postCh # << >>
        /\ postCh[Len(postCh)].name \in backups
        /\ postCh[Len(postCh)].id = nEnq
        /\ backupName.ts > postCh[Len(postCh)].name.ts

\* the step in which the os.Rename of a rotation fails: the handle is gone,
\* the file is still at the active path, the call ends with an error
RenameFails(t) ==
    /\ pc[t] = "idle" /\ pc'[t] = "wUnlock"
    /\ active.exists /\ fp # "closed" /\ fp' = "nil"
    /\ ret'[t].err = "io"

\* C17: when the os.Rename of a rotation fails, the Write returns (0, error)
\* and the active file, the backups on disk, r.postCh, r.backupName and r.size
\* are as before the call.
C17_RenameFailureChangesNothing ==
    [][\A t \in Threads :
          RenameFails(t) =>
              /\ ret'[t] = Ret(0, "io")
              /\ rot'[t] = 0
              /\ UNCHANGED <<active, backups, postCh, nEnq, backupName, size>>
      ]_vars

\* a Write that overflowed a file with bytes in it is about to return the
\* rename error
C17_Witness ==
    \E t \in Threads :
        /\ pc[t] = "wUnlock" /\ ret[t] = Ret(0, "io") /\ rot[t] = 0
        /\ fp = "nil" /\ active.exists /\ active.len > 0
        /\ pre[t] > 0 /\ size = pre[t] /\ pre[t] + arg[t] > MaxSize
        /\ nEnq = 0 /\ backups = {}

\* the backups on disk the sweeps look at: those the pattern matches
Matching == {f \in backups : f.gz = opt.gzip}

\* the n backups of a set with the largest names
Newest(S, n) == {f \in S : Cardinality({g \in S : g.ts > f.ts}) < n}

\* the count sweep (of either implementation) takes its step without a
\* failed deletion
CountSweepStep == mpc = "run" /\ mphase = "overmax" /\ mpc' = "select"

\* C13: a count sweep with maxBackups > 0 on a disk with more than maxBackups
\* matching backups, none of whose deletions fails, deletes exactly the
\* matching backups that are not among the maxBackups with the largest names,
\* and nothing else.
C13_CountSweepKeepsNewest ==
    [][(CountSweepStep /\ opt.maxBackups > 0
          /\ Cardinality(Matching) > opt.maxBackups) =>
            /\ backups' = (backups \ Matching) \cup Newest(Matching, opt.maxBackups)
            /\ removed' = Matching \ Newest(Matching, opt.maxBackups)
            /\ Cardinality(removed')
                  = Cardinality(Matching) - opt.maxBackups
      ]_vars

\* a count sweep with a budget of one has removed the two oldest of three
\* matching backups and left the newest, and the backups of the other shape
C13_Witness ==
    /\ mphase = "idle" /\ mpc = "select" /\ ~ioFailed
    /\ opt.maxBackups = 1
    /\ Matching = {[ts |-> MaxClock, gz |-> opt.gzip]}
    /\ Cardinality(removed) = 2
    /\ \A f \in removed : f.gz = opt.gzip /\ f.ts < MaxClock
    /\ \E f \in backups : f.gz # opt.gzip /\ f.ts < MaxClock

\* afterRotate takes a step
MaintMoves == <<mpc, mphase>>' # <<mpc, mphase>>

\* the count sweep is at its start
CountSweepStart == mpc = "run" /\ mphase = "overmax"

\* C14: a count sweep with maxBackups > 0 on a disk with at most maxBackups
\* matching backups deletes nothing, records no error and returns, in both
\* implementations; afterRotate never panics.
C14_CountSweepUnderBudget ==
    /\ [](mpc # "panic")
    /\ [][(CountSweepStart /\ opt.maxBackups > 0
             /\ Cardinality(Matching) <= opt.maxBackups /\ MaintMoves) =>
               /\ mpc' = "select" /\ mphase' = "idle"
               /\ removed' = {}
               /\ UNCHANGED <<backups, merr, err, ioVars>>
         ]_vars

\* the age sweep takes its step without a failed deletion
AgeSweepStep == mpc = "run" /\ mphase = "outdated" /\ mphase' = "overmax"

\* C15: an age sweep with maxDays > 0, none of whose deletions fails, deletes
\* exactly the matching backups whose name is below the boundary name, the
\* name of the time maxDays days before the time the sweep reads; backups at
\* or above the boundary and backups of the other shape stay.
C15_AgeSweepDeletesBelowBoundary ==
    [][(AgeSweepStep /\ opt.maxDays > 0) =>
            /\ clock' >= clock
            /\ backups' = backups \ {f \in Matching : f.ts < clock' - opt.maxDays}
            /\ removed' = {f \in Matching : f.ts < clock' - opt.maxDays}
      ]_vars

\* an age sweep has removed a backup of an earlier run and left the backup
\* whose name is the boundary, and an older one of the other shape
C15_Witness ==
    /\ mphase = "overmax" /\ mpc = "run" /\ ~ioFailed
    /\ opt.maxDays = 1 /\ clock = 1
    /\ removed = {[ts |-> -1, gz |-> opt.gzip]}
    /\ [ts |-> 0, gz |-> opt.gzip] \in backups
    /\ [ts |-> -1, gz |-> ~opt.gzip] \in backups

\* the age sweep is at its start
AgeSweepStart == mpc = "run" /\ mphase = "outdated"

\* C20: a sweep whose budget is not positive returns at once: the age sweep
\* with maxDays <= 0 and the count sweep with maxBackups <= 0 delete nothing,
\* record no error, read no clock and go on to the next step, whatever is on
\* disk.
C20_DisabledSweepDoesNothing ==
    [][/\ (AgeSweepStart /\ opt.maxDays <= 0 /\ MaintMoves) =>
             /\ mpc' = "run" /\ mphase' = "overmax"
             /\ removed' = {}
             /\ UNCHANGED <<backups, merr, err, ioVars, clock>>
       /\ (CountSweepStart /\ opt.maxBackups <= 0 /\ MaintMoves) =>
             /\ mpc' = "select" /\ mphase' = "idle"
             /\ removed' = {}
             /\ UNCHANGED <<backups, merr, err, ioVars, clock>>
      ]_vars

\* both sweeps have run with budgets that are not positive on a disk that
\* holds three matching backups, two of them of an earlier run and older
\* than any positive budget would keep: all are still there, no time was read
C20_Witness ==
    /\ mphase = "idle" /\ mpc = "select"
    /\ opt.maxDays <= 0 /\ opt.maxBackups <= 0
    /\ removed = {} /\ ~ioFailed /\ err = "nil" /\ clock = 0
    /\ Cardinality(Matching) > 2

\* goroutine t starts a Write that gets past the checks for a closed writer
\* and an oversize payload and finds r.err set
Surfaces(t) ==
    pc[t] = "idle" /\ InWrite(t)' /\ ~done /\ ~Oversize(arg'[t]) /\ err # "nil"

\* the call of goroutine t that surfaced a latched error returns in this step
SurfacedReturns(t) ==
    pc[t] = "wUnlock" /\ ret[t].err \in MaintErrors /\ pc'[t] = "idle"

\* what a Write can change on its write path
WritePath == <<size, fp, active, backups, backupName, postCh, nEnq, reported,
               clock, ioVars, rot>>

\* C21: the Write that surfaces a latched maintenance error returns that error
\* with 0 bytes and does not attempt the write: from taking r.mu to releasing
\* it, it appends nothing, does not rotate (handle, backup name, backups and
\* queue stay) and leaves r.size alone; all it changes is r.err, which it
\* empties.
C21_SurfacingWriteOnlyClearsLatch ==
    [][\A t \in Threads :
          /\ Surfaces(t) =>
                /\ pc'[t] = "wUnlock"
                /\ ret'[t] = Ret(0, err)
                /\ err' = "nil"
                /\ UNCHANGED <<WritePath, done, postDone, closeOnce, maintVars>>
          /\ SurfacedReturns(t) =>
                UNCHANGED <<WritePath, err, done, postDone, closeOnce,
                            maintVars>>]_vars

\* a Write whose payload would have overflowed the counter, so rotated, is
\* about to return the latched error instead: no rotation, the file as long
\* as before
C21_Witness ==
    \E t \in Threads :
        /\ pc[t] = "wUnlock" /\ ret[t] = Ret(0, "remove")
        /\ pre[t] + arg[t] > MaxSize /\ arg[t] <= MaxSize
        /\ rot[t] = 0 /\ size = pre[t] /\ active.len >= size /\ size > 0
        /\ fp = "open" /\ err = "nil"

\* the files the sweep that is running is to delete: the matching backups below
\* the boundary at time now, or all but the newest maxBackups
Candidates(now) ==
    IF mphase = "outdated"
      THEN {f \in Matching : f.ts < now - opt.maxDays}
      ELSE Matching \ Newest(Matching, opt.maxBackups)

\* a sweep ends in this step with a deletion that failed
SweepFails == mpc = "run" /\ mphase \in {"outdated", "overmax"} /\ mpc' = "lock"

\* the sweep that fails has deleted the candidates before the one that failed,
\* and no other file; it holds the error and waits for r.mu
FailedSweepStep ==
    SweepFails =>
        /\ merr' = "remove" /\ mphase' = mphase /\ err' = err
        /\ backups' = backups \ removed'
        /\ removed' \subseteq Candidates(clock')
        /\ \E c \in Candidates(clock') \ removed' :
              \A f \in Candidates(clock') :
                  (f \in removed') = (f.ts < c.ts)

\* the error is stored in r.err in the step that takes r.mu, which deletes
\* nothing and goes on to the next step of the cycle, or to the next entry
RecordStep ==
    (mpc = "lock" /\ merr = "remove" /\ mpc' # "lock") =>
        /\ err' = merr /\ merr' = "nil"
        /\ UNCHANGED <<backups, removed>>
        /\ IF mphase = "overmax"
             THEN mpc' = "select" /\ mphase' = "idle"
             ELSE mpc' = "run" /\ mphase' = "overmax"

\* a sweep has failed and its error is not yet recorded
RemoveFailed == mpc = "lock" /\ merr = "remove"

\* C22: in an age sweep or a count sweep the first deletion that fails ends
\* the sweep: the candidates before it are deleted and stay so, the later ones
\* are left; the error is then stored in r.err, and afterRotate goes on with
\* the next step or the next queue entry.
C22_FailedDeletionEndsSweep ==
    /\ [][FailedSweepStep /\ RecordStep]_vars
    /\ RemoveFailed ~> ~RemoveFailed

\* the Write of goroutine t takes its result (len(p), nil) in this step
ReportsWritten(t) ==
    /\ pc[t] \in {"idle", "send", "append"} /\ pc'[t] = "wUnlock"
    /\ ret'[t].err = "nil" /\ ret'[t].n > 0

\* C23: whenever a Write on a writer that is not closed returns (len(p), nil)
\* with len(p) > 0, the len(p) bytes were appended to the active file through
\* an open handle, whatever happened before (a rotation that failed after
\* closing the handle included).
C23_ReportedBytesAreAppended ==
    [][\A t \in Threads :
          (ReportsWritten(t) /\ ~done) =>
              /\ ret'[t].n = arg[t]
              /\ fp = "open" /\ fp' = "open"
              /\ active.exists /\ active'.exists
              /\ active'.len = active.len + arg[t]]_vars

\* the Write of goroutine t renames the active file to r.backupName in this
\* step
Renames(t) == pc[t] = "idle" /\ pc'[t] = "send"

\* C24: a rotation never renames the active file onto a backup that an earlier
\* rotation of this writer produced and that is still on disk: the name it
\* uses, computed at the rotation before (or at construction), is the name of
\* no file among the backups, for every clock that does not go back, one that
\* stands still included.
C24_BackupNamesAreFresh ==
    [][\A t \in Threads : Renames(t) => backupName \notin backups]_vars

\* C25: in every reachable state the active file holds at most maxSize bytes,
\* whatever it held when the writer was constructed (construction opens an
\* existing file for append and starts r.size at 0).
C25_ActiveFileWithinMaxSize == active.exists => active.len <= MaxSize
====
